---- MODULE Spec2Model ----
(***************************************************************************)
(* A model of alphapulldown/analysis_pipeline/pdb_analyser.py: the class   *)
(* PDBAnalyser (chain-pair enumeration, interface detection, PAE / plDDT   *)
(* aggregation, the binding-energy adapter, the PI-score adapter and the   *)
(* __call__ orchestrator).                                                 *)
(*                                                                         *)
(* Data frames are sequences of rows (records).  Python values that can    *)
(* be of several types are tagged records with a "kind" field.  A call     *)
(* that raises is the outcome [kind |-> "raise", exc |-> <exception>].     *)
(* Floats that come out of a true division are kept exact, as the pair     *)
(* [num, den] of the division's operands.                                  *)
(***************************************************************************)
EXTENDS Integers, Sequences, FiniteSets

VARIABLES
    pdb_df,              \* self.pdb_df: the ATOM table, a sequence of atom rows
    chain_combinations,  \* self.chain_combinations
    pae_mtx,             \* __call__ argument pae_mtx
    plddt,               \* __call__ argument plddt: chain id -> list
    cutoff,              \* __call__ argument cutoff
    sfxn,                \* the score function of line 148 (the energy oracle)
    pc,                  \* position of the caller / of __call__
    k,                   \* number of items of chain_combinations consumed by the loop
    output_df,           \* __call__ local output_df
    pi_score_df,         \* __call__ local pi_score_df (unbound before the first iteration)
    calls,               \* log of the component calls __call__ has made, per chain pair
    detected,            \* what obtain_interface_residues returned to __call__, per pair
    result,              \* what __call__ returned
    args,                \* arguments of a direct call of one method
    ret                  \* outcome of a direct call of one method

vars == <<pdb_df, chain_combinations, pae_mtx, plddt, cutoff, sfxn, pc, k,
          output_df, pi_score_df, calls, detected, result, args, ret>>

(***************************************************************************)
(* Bounds of the model.                                                    *)
(***************************************************************************)
MaxAtoms == 3        \* rows of the ATOM table of an orchestrated run
MaxEnumAtoms == 4    \* rows of the ATOM table handed to the enumerator alone
MaxChainAtoms == 2   \* rows of one chain's table handed to the detector alone
MaxResidues == 3     \* length of an interface index vector handed to an aggregator
MaxRows == 2         \* data rows of a table the quality tool writes
MaxEnergy == 1       \* the energy oracle answers 0..MaxEnergy

DefaultCutoff == 12

Chains == {"A", "B", "C"}
EnumChains == {"A", "B", "C", "D"}
Points == {<<0, 0, 0>>, <<3, 4, 12>>}
AtomKinds == {<<"CB", "ALA">>, <<"CA", "GLY">>, <<"CA", "ALA">>}
Cutoffs == {-1, DefaultCutoff, 13, 14}

NoneValue == [kind |-> "None"]
Unbound == [kind |-> "unbound"]
Raise(e) == [kind |-> "raise", exc |-> e]

AtomRows(chains, kinds, points) ==
    { [chain_id |-> c, atom_name |-> kd[1], residue_name |-> kd[2], coord |-> p] :
        c \in chains, kd \in kinds, p \in points }

SeqsUpTo(S, n) == UNION { [1..m -> S] : m \in 0..n }

Range(s) == { s[i] : i \in DOMAIN s }

RECURSIVE Flatten(_)
Flatten(ss) == IF ss = <<>> THEN <<>> ELSE Head(ss) \o Flatten(Tail(ss))

(***************************************************************************)
(* get_all_combinations_of_chains                                          *)
(***************************************************************************)
\* pd.unique: the distinct values in order of first appearance
RECURSIVE pd_unique(_)
pd_unique(s) ==
    IF s = <<>> THEN <<>>
    ELSE LET front == pd_unique(SubSeq(s, 1, Len(s) - 1))
             last == s[Len(s)]
         IN IF last \in Range(front) THEN front ELSE Append(front, last)

\* itertools.permutations(ids, 2): every ordered pair of distinct positions
permutations(ids) ==
    Flatten([i \in 1..Len(ids) |->
               LET others == SelectSeq([j \in 1..Len(ids) |-> j], LAMBDA j : j # i)
               IN [j \in 1..Len(others) |-> <<ids[i], ids[others[j]]>>]])

\* itertools.combinations(ids, 2): positions i < j, in lexicographic order of (i, j)
combinations(ids) ==
    Flatten([i \in 1..Len(ids) |->
               [j \in 1..(Len(ids) - i) |-> <<ids[i], ids[i + j]>>]])

\* the method with the test len(unique_chain_ids) > 0 in place of that of line 43
get_all_combinations_any(df) ==
    LET unique_chain_ids == pd_unique([i \in 1..Len(df) |-> df[i].chain_id])
    IN IF Len(unique_chain_ids) > 0
       THEN [type |-> "dict", items |-> combinations(unique_chain_ids)]
       ELSE [type |-> "ndarray", items |-> unique_chain_ids]

\* the value self.chain_combinations has after the method: a dict whose key
\* "interface_<i>" is index i of items, or the array of unique chain ids
get_all_combinations_of_chains(df) ==
    LET unique_chain_ids == pd_unique([i \in 1..Len(df) |-> df[i].chain_id])
    IN IF Len(unique_chain_ids) > 1
       THEN [type |-> "dict", items |-> combinations(unique_chain_ids)]
       ELSE [type |-> "ndarray", items |-> unique_chain_ids]

(***************************************************************************)
(* retrieve_C_beta_coords, obtain_interface_residues                       *)
(***************************************************************************)
retrieve_C_beta_coords(chain_df) ==
    LET mask(row) == \/ row.atom_name = "CB"
                     \/ (row.residue_name = "GLY" /\ row.atom_name = "CA")
        subdf == SelectSeq(chain_df, mask)
    IN [i \in 1..Len(subdf) |-> subdf[i].coord]

sum_sq(p, q) ==
    (p[1] - q[1]) * (p[1] - q[1]) + (p[2] - q[2]) * (p[2] - q[2])
        + (p[3] - q[3]) * (p[3] - q[3])

\* the comparison with <= in place of <
distance_le(p, q, c) == c >= 0 /\ sum_sq(p, q) <= c * c

\* np.sqrt(np.sum(diff ** 2)) < cutoff.  The square root is non-negative and
\* correctly rounded, so for integer coordinates and an integer cutoff the
\* comparison is that of the squares, and it is false for a cutoff <= 0.
distance_lt(p, q, c) == c > 0 /\ sum_sq(p, q) < c * c

\* np.where(distance_mtx < cutoff): the 0-based row and column indices of the
\* entries that satisfy the test, in row-major order
obtain_interface_residues(chain_df_1, chain_df_2, c) ==
    LET chain_1_CB_coords == retrieve_C_beta_coords(chain_df_1)
        chain_2_CB_coords == retrieve_C_beta_coords(chain_df_2)
        n1 == Len(chain_1_CB_coords)
        n2 == Len(chain_2_CB_coords)
        cells == Flatten([i \in 1..n1 |-> [j \in 1..n2 |-> <<i, j>>]])
        hit == SelectSeq(cells, LAMBDA ij :
                   distance_lt(chain_1_CB_coords[ij[1]], chain_2_CB_coords[ij[2]], c))
        satisfied_residues_chain_1 == [t \in 1..Len(hit) |-> hit[t][1] - 1]
        satisfied_residues_chain_2 == [t \in 1..Len(hit) |-> hit[t][2] - 1]
    IN IF Len(satisfied_residues_chain_1) > 0 /\ Len(satisfied_residues_chain_2) > 0
       THEN [kind |-> "tuple", chain_1 |-> satisfied_residues_chain_1,
             chain_2 |-> satisfied_residues_chain_2]
       ELSE NoneValue

(***************************************************************************)
(* calculate_average_pae, calculate_average_plddt                          *)
(***************************************************************************)
\* zip(a, b): as many pairs as the shorter argument has elements
zip(a, b) ==
    LET n == IF Len(a) < Len(b) THEN Len(a) ELSE Len(b)
    IN [t \in 1..n |-> <<a[t], b[t]>>]

RECURSIVE SumSeq(_)
SumSeq(s) == IF s = <<>> THEN 0 ELSE Head(s) + SumSeq(Tail(s))

\* Python's true division: ZeroDivisionError for the int operands 0 / 0 that
\* an accumulator left at its initial 0 and a zero count give
true_div(num, den) ==
    IF den = 0 THEN Raise("ZeroDivisionError")
    ELSE [kind |-> "float", num |-> num, den |-> den]

calculate_average_pae(mtx, chain_1_residues, chain_2_residues) ==
    LET total_num == Len(chain_1_residues)
        pairs == zip(chain_1_residues, chain_2_residues)
        pae_sum == SumSeq([t \in 1..Len(pairs) |->
                      mtx[pairs[t][1]][pairs[t][2]] + mtx[pairs[t][2]][pairs[t][1]]])
    IN true_div(pae_sum, 2 * total_num)

\* iteration over set(<array of small non-negative ints>): CPython hashes an
\* int to itself, so indices below the hash table's size come out ascending
RECURSIVE set_iter(_)
set_iter(S) ==
    IF S = {} THEN <<>>
    ELSE LET m == CHOOSE x \in S : \A y \in S : x <= y
         IN <<m>> \o set_iter(S \ {m})

\* the loop of lines 122-124: one term of each list per zipped pair
zip_sum(p1, p2, s1, s2) ==
    LET pairs == zip(s1, s2)
    IN SumSeq([t \in 1..Len(pairs) |-> p1[pairs[t][1]] + p2[pairs[t][2]]])

calculate_average_plddt(chain_1_plddt, chain_2_plddt, chain_1_residues, chain_2_residues) ==
    LET set_1 == Range(chain_1_residues)
        set_2 == Range(chain_2_residues)
        total_num == Cardinality(set_1) + Cardinality(set_2)
        plddt_sum == zip_sum(chain_1_plddt, chain_2_plddt, set_iter(set_1), set_iter(set_2))
    IN true_div(plddt_sum, total_num)

(***************************************************************************)
(* calculate_binding_energy                                                *)
(***************************************************************************)
\* A structure, a saved file and a pose are the set of chain ids whose atoms
\* they hold.  self.pdb[chain_id] is the chain's own atoms.
pdb_chain(chain_id) == {chain_id}

\* PDBIO.set_structure replaces the structure the writer holds
set_structure(pdbio, structure) == [structure |-> structure]

\* PDBIO.save followed by pose_from_pdb: the pose of what the writer holds
save_and_pose(pdbio) == pdbio.structure

calculate_binding_energy(score, chain_1_id, chain_2_id) ==
    LET chain_1_structure == pdb_chain(chain_1_id)
        chain_2_structure == pdb_chain(chain_2_id)
        complex_pose == save_and_pose(
            set_structure(set_structure([structure |-> {}], chain_1_structure),
                          chain_2_structure))
        chain_1_pose == save_and_pose(set_structure([structure |-> {}], chain_1_structure))
        chain_2_pose == save_and_pose(set_structure([structure |-> {}], chain_2_structure))
        complex_energy == score[complex_pose]
        chain_1_energy == score[chain_1_pose]
        chain_2_energy == score[chain_2_pose]
    IN [kind |-> "float",
        value |-> complex_energy - chain_1_energy - chain_2_energy,
        complex_pose |-> complex_pose,
        chain_1_pose |-> chain_1_pose,
        chain_2_pose |-> chain_2_pose]

(***************************************************************************)
(* Strings that are formatted and split: sequences of characters.  A chain *)
(* id is one character.                                                    *)
(***************************************************************************)
NoneStr == <<"N", "o", "n", "e">>

\* f"{chain_1}_{chain_2}" of two strings
fmt(chain_1, chain_2) == chain_1 \o <<"_">> \o chain_2

\* f"{chain_1_id}_{chain_2_id}" of two chain ids
label(chain_1_id, chain_2_id) == fmt(<<chain_1_id>>, <<chain_2_id>>)

\* str.split("_")
RECURSIVE split(_)
split(s) ==
    IF \A i \in DOMAIN s : s[i] # "_" THEN <<s>>
    ELSE LET i == CHOOSE i \in DOMAIN s : s[i] = "_" /\ \A j \in 1..(i - 1) : s[j] # "_"
         IN <<SubSeq(s, 1, i - 1)>> \o split(SubSeq(s, i + 1, Len(s)))

(***************************************************************************)
(* run_and_summarise_pi_score, calculate_pi_score                          *)
(*                                                                         *)
(* What the subprocess leaves behind is the record tool:                   *)
(*   dir_exists  work_dir exists                                           *)
(*   csv         rows of the first file named *filter_intf_features*, or   *)
(*               NoneValue when there is no such file; a row is            *)
(*               [interface, int_area], int_area standing for the feature  *)
(*               columns                                                   *)
(*   pi          rows of the first file named *pi_score_*, or NoneValue; a *)
(*               row is [chains, pi_score]                                 *)
(*   drop_ok     the merged table has all five columns of line 205         *)
(***************************************************************************)
DataFrame(rows) == [kind |-> "DataFrame", rows |-> rows]

\* the loops of lines 180-184, 186-190 and 206-210: the labels are those of
\* the frame as it was when the loop began, the frame grows inside the loop.
\* A label that does not unpack into two parts raises ValueError; frame is
\* what the loop had built by then.
RECURSIVE mirror_loop(_, _)
mirror_loop(labels, rows) ==
    IF labels = <<>> THEN [frame |-> rows, raised |-> FALSE]
    ELSE LET interface == Head(labels)
             parts == split(interface)
         IN IF Len(parts) # 2 THEN [frame |-> rows, raised |-> TRUE]
            ELSE LET chain_1 == parts[1]
                     chain_2 == parts[2]
                     sel == SelectSeq(rows, LAMBDA r : r.interface = interface)
                     subdf == [t \in 1..Len(sel) |->
                                 [sel[t] EXCEPT !.interface = fmt(chain_2, chain_1)]]
                 IN mirror_loop(Tail(labels), rows \o subdf)

mirror(rows) == mirror_loop([t \in 1..Len(rows) |-> rows[t].interface], rows)

\* pd.merge(filtered_df, pi_score, on=['interface']): the inner join, every
\* left row with every right row of the same interface
merge_inner(left, right) ==
    Flatten([i \in 1..Len(left) |->
        LET match == SelectSeq(right, LAMBDA r : r.interface = left[i].interface)
        IN [j \in 1..Len(match) |->
              [interface |-> left[i].interface, int_area |-> left[i].int_area,
               chains |-> match[j].chains, pi_score |-> match[j].pi_score]]])

\* filtered_df.drop(columns=[..., "chains", ...])
drop_columns(rows) ==
    [t \in 1..Len(rows) |->
        [interface |-> rows[t].interface, int_area |-> rows[t].int_area,
         pi_score |-> rows[t].pi_score]]

run_and_summarise_pi_score(tool, interface_name) ==
    IF ~tool.dir_exists \/ tool.csv = NoneValue
    THEN \* os.listdir or csv_files[0] raised; the handler builds a dict
         \* and passes the set display {filtered_df} to DataFrame.from_dict: a
         \* dict is unhashable, and the TypeError leaves the handler
         Raise("TypeError")
    ELSE IF Len(tool.csv.rows) = 0
    THEN \* every column, interface too, becomes the one-row column ["None"]
         LET filtered_df == <<[interface |-> NoneStr, int_area |-> NoneStr,
                               pi_score |-> "No interface detected"]>>
             m == mirror(filtered_df)
         IN IF m.raised THEN Raise("ValueError") ELSE DataFrame(m.frame)
    ELSE LET m1 == mirror(tool.csv.rows)
         IN IF m1.raised THEN Raise("ValueError")
            ELSE IF tool.pi = NoneValue THEN Raise("IndexError")   \* pi_score_files[0]
            ELSE IF Len(tool.pi.rows) = 0 THEN Raise("KeyError")   \* pi_score['chains']
            ELSE LET pi_score == [t \in 1..Len(tool.pi.rows) |->
                                    [chains |-> tool.pi.rows[t].chains,
                                     pi_score |-> tool.pi.rows[t].pi_score,
                                     interface |-> tool.pi.rows[t].chains]]
                     merged == merge_inner(m1.frame, pi_score)
                 IN IF ~tool.drop_ok THEN DataFrame(merged)
                    ELSE DataFrame(mirror(drop_columns(merged)).frame)

\* the fresh temporary directory holds nothing before the subprocess runs
calculate_pi_score(tool, interface) == run_and_summarise_pi_score(tool, interface)

(***************************************************************************)
(* What the quality tool can leave behind.                                 *)
(***************************************************************************)
ToolLabels == {label("A", "B"), label("B", "A")}
FeatureRows == { [interface |-> l, int_area |-> v] : l \in ToolLabels, v \in {1, 2} }
ScoreRows == { [chains |-> l, pi_score |-> 7] : l \in ToolLabels }
Files(rows) == {NoneValue} \cup { [rows |-> r] : r \in SeqsUpTo(rows, MaxRows) }

ToolOutcomes ==
    {[dir_exists |-> FALSE, csv |-> NoneValue, pi |-> NoneValue, drop_ok |-> FALSE]}
    \cup { [dir_exists |-> TRUE, csv |-> f, pi |-> g, drop_ok |-> d] :
             f \in Files(FeatureRows), g \in Files(ScoreRows), d \in BOOLEAN }

\* the outcomes an orchestrated run draws from: no output at all, or a
\* feature table of no, one or two rows for A_B with a score table for A_B
OrchTools ==
    {[dir_exists |-> FALSE, csv |-> NoneValue, pi |-> NoneValue, drop_ok |-> FALSE]}
    \cup { [dir_exists |-> TRUE, csv |-> [rows |-> f],
            pi |-> [rows |-> <<[chains |-> label("A", "B"), pi_score |-> 7]>>],
            drop_ok |-> d] :
             f \in SeqsUpTo({[interface |-> label("A", "B"), int_area |-> 1]}, MaxRows),
             d \in BOOLEAN }

(***************************************************************************)
(* __call__                                                                *)
(***************************************************************************)
Str(v) == [kind |-> "str", value |-> v]

chain_rows(df, chain_id) == SelectSeq(df, LAMBDA row : row.chain_id = chain_id)

\* pd.merge(output_df, pi_score_df, how='left', on='interface'): every left
\* row once per right row of the same interface, and once when there is none
merge_left(left, right) ==
    Flatten([i \in 1..Len(left) |->
        LET match == SelectSeq(right, LAMBDA r : r.interface = left[i].interface)
        IN IF Len(match) = 0
           THEN <<[measured |-> left[i], quality |-> [kind |-> "NaN"]]>>
           ELSE [j \in 1..Len(match) |-> [measured |-> left[i], quality |-> match[j]]]])

\* the else-branch asking the energy oracle all the same
without_interface_energy(v, score) ==
    [calls |-> {<<"calculate_binding_energy", v>>},
     average_interface_pae |-> Str("No interface residues detected"),
     average_interface_plddt |-> Str("No interface residues detected"),
     binding_energy |-> [kind |-> "float",
                         value |-> calculate_binding_energy(score, v[1], v[2]).value]]

\* the else-branch of lines 258-261: three assignments, no call
without_interface(v, score) ==
    [calls |-> {},
     average_interface_pae |-> Str("No interface residues detected"),
     average_interface_plddt |-> Str("No interface residues detected"),
     binding_energy |-> Str("None")]

\* one pass of the loop body, lines 243-268, for the item v = (chain_1_id,
\* chain_2_id): the calls it makes, and the exception that ends it or the row
\* it appends.  oracle_ok: the energy oracle answers rather than fails.
loop_body(v, df, mtx, conf, c, score, tool, oracle_ok) ==
    LET chain_1_id == v[1]
        chain_2_id == v[2]
        chain_1_df == chain_rows(df, chain_1_id)
        chain_2_df == chain_rows(df, chain_2_id)
        pi == calculate_pi_score(tool, label(chain_1_id, chain_2_id))
        interface_residues == obtain_interface_residues(chain_1_df, chain_2_df, c)
        pae == calculate_average_pae(mtx, interface_residues.chain_1,
                                     interface_residues.chain_2)
        energy == calculate_binding_energy(score, chain_1_id, chain_2_id)
        conf_avg == calculate_average_plddt(conf[chain_1_id], conf[chain_2_id],
                        interface_residues.chain_1, interface_residues.chain_2)
        absent == without_interface(v, score)
        c_pi == {<<"calculate_pi_score", v>>}
        c_det == c_pi \cup {<<"obtain_interface_residues", v>>}
        c_pae == c_det \cup {<<"calculate_average_pae", v>>}
        c_en == c_pae \cup {<<"calculate_binding_energy", v>>}
        c_all == c_en \cup {<<"calculate_average_plddt", v>>}
        row(p, q, e) == [average_interface_pae |-> p, average_interface_plddt |-> q,
                         binding_energy |-> e,
                         interface |-> label(chain_1_id, chain_2_id)]
        out(cs, raised, det, pidf, r) ==
            [calls |-> cs, raised |-> raised, detected |-> det, pi |-> pidf, row |-> r]
    IN IF pi.kind = "raise" THEN out(c_pi, pi, {}, Unbound, NoneValue)
       ELSE IF interface_residues = NoneValue
       THEN out(c_det \cup absent.calls, NoneValue, {<<v, "None">>}, pi,
                row(absent.average_interface_pae, absent.average_interface_plddt,
                    absent.binding_energy))
       ELSE IF pae.kind = "raise"
       THEN out(c_pae, pae, {<<v, "tuple">>}, pi, NoneValue)
       ELSE IF ~oracle_ok
       THEN out(c_en, Raise("RuntimeError"), {<<v, "tuple">>}, pi, NoneValue)
       ELSE IF conf_avg.kind = "raise"
       THEN out(c_all, conf_avg, {<<v, "tuple">>}, pi, NoneValue)
       ELSE out(c_all, NoneValue, {<<v, "tuple">>}, pi,
                row(pae, conf_avg, [kind |-> "float", value |-> energy.value]))

\* __init__, line 37: the enumeration of the chain pairs
new_PDBAnalyser ==
    /\ pc = "new"
    /\ chain_combinations' = get_all_combinations_of_chains(pdb_df)
    /\ pc' = "ready"
    /\ UNCHANGED <<pdb_df, pae_mtx, plddt, cutoff, sfxn, k, output_df, pi_score_df,
                   calls, detected, result, args, ret>>

\* __call__, lines 235-240: sys.exit() for what is no dict
call_monomeric ==
    /\ pc = "ready"
    /\ chain_combinations.type # "dict"
    /\ pc' = "exited"
    /\ output_df' = <<>>
    /\ UNCHANGED <<pdb_df, chain_combinations, pae_mtx, plddt, cutoff, sfxn, k,
                   pi_score_df, calls, detected, result, args, ret>>

\* __call__, lines 235-242: into the loop over the dict's items
call_enter ==
    /\ pc = "ready"
    /\ chain_combinations.type = "dict"
    /\ pc' = "loop"
    /\ output_df' = <<>>
    /\ k' = 0
    /\ UNCHANGED <<pdb_df, chain_combinations, pae_mtx, plddt, cutoff, sfxn,
                   pi_score_df, calls, detected, result, args, ret>>

\* __call__, lines 243-268: one iteration
call_iterate ==
    /\ pc = "loop"
    /\ k < Len(chain_combinations.items)
    /\ \E tool \in OrchTools, oracle_ok \in BOOLEAN :
         LET b == loop_body(chain_combinations.items[k + 1], pdb_df, pae_mtx, plddt,
                            cutoff, sfxn, tool, oracle_ok)
         IN /\ calls' = calls \cup b.calls
            /\ detected' = detected \cup b.detected
            /\ pi_score_df' = IF b.pi = Unbound THEN pi_score_df ELSE b.pi
            /\ IF b.raised # NoneValue
               THEN /\ pc' = "raised"
                    /\ result' = b.raised
                    /\ UNCHANGED <<k, output_df>>
               ELSE /\ pc' = "loop"
                    /\ k' = k + 1
                    /\ output_df' = Append(output_df, b.row)
                    /\ UNCHANGED result
    /\ UNCHANGED <<pdb_df, chain_combinations, pae_mtx, plddt, cutoff, sfxn, args, ret>>

\* __call__, line 269: the merge and the return; pi_score_df is an unbound
\* local when the loop never ran
call_return ==
    /\ pc = "loop"
    /\ k = Len(chain_combinations.items)
    /\ IF pi_score_df = Unbound
       THEN pc' = "raised" /\ result' = Raise("UnboundLocalError")
       ELSE pc' = "returned" /\ result' = DataFrame(merge_left(output_df, pi_score_df.rows))
    /\ UNCHANGED <<pdb_df, chain_combinations, pae_mtx, plddt, cutoff, sfxn, k,
                   output_df, pi_score_df, calls, detected, args, ret>>

(***************************************************************************)
(* An orchestrated run: construction, then one __call__.                   *)
(***************************************************************************)
Indices == 0..1
Poses == (SUBSET Chains) \ {{}}

OrchRows == AtomRows(Chains, {<<"CB", "ALA">>}, Points)
OrchPae == { [i \in 0..MaxAtoms |-> [j \in 0..MaxAtoms |-> i + 2 * j + 1]] }
OrchPlddt == { [c \in Chains |-> [i \in 0..MaxAtoms |-> 10 * (i + 1)]] }
OrchScores == { [p \in Poses |-> Cardinality(p) % (MaxEnergy + 1)] }

Init ==
    /\ pdb_df \in SeqsUpTo(OrchRows, MaxAtoms)
    /\ chain_combinations = [type |-> "dict", items |-> <<>>]
    /\ pae_mtx \in OrchPae
    /\ plddt \in OrchPlddt
    /\ cutoff \in {DefaultCutoff, 14}
    /\ sfxn \in OrchScores
    /\ pc = "new"
    /\ k = 0
    /\ output_df = <<>>
    /\ pi_score_df = Unbound
    /\ calls = {}
    /\ detected = {}
    /\ result = Unbound
    /\ args = Unbound
    /\ ret = Unbound

Next ==
    \/ new_PDBAnalyser
    \/ call_monomeric
    \/ call_enter
    \/ call_iterate
    \/ call_return

Spec == Init /\ [][Next]_vars

(***************************************************************************)
(* One direct call of one method, on arguments drawn in the initial state. *)
(***************************************************************************)
PairedIndexVectors ==
    UNION { [1..m -> Indices] \X [1..m -> Indices] : m \in 0..MaxResidues }

EnumTables ==
    SeqsUpTo(AtomRows(EnumChains, {<<"CB", "ALA">>}, {<<0, 0, 0>>}), MaxEnumAtoms)
ChainTables(chain_id) == SeqsUpTo(AtomRows({chain_id}, AtomKinds, Points), MaxChainAtoms)
ChainPairs == { v \in Chains \X Chains : v[1] # v[2] }

InitUnit ==
    /\ \/ \E t \in EnumTables :
            args = [fn |-> "get_all_combinations_of_chains", pdb_df |-> t]
       \/ \E d1 \in ChainTables("A"), d2 \in ChainTables("B"), c \in Cutoffs :
            args = [fn |-> "obtain_interface_residues", chain_df_1 |-> d1,
                    chain_df_2 |-> d2, cutoff |-> c]
       \/ \E m \in [Indices -> [Indices -> {1, 2}]], r \in PairedIndexVectors :
            args = [fn |-> "calculate_average_pae", pae_mtx |-> m,
                    chain_1_residues |-> r[1], chain_2_residues |-> r[2]]
       \/ \E p1 \in [Indices -> {10, 20}], p2 \in [Indices -> {30, 40}],
             r \in PairedIndexVectors :
            args = [fn |-> "calculate_average_plddt", chain_1_plddt |-> p1,
                    chain_2_plddt |-> p2, chain_1_residues |-> r[1],
                    chain_2_residues |-> r[2]]
       \/ \E f \in [Poses -> 0..MaxEnergy], v \in ChainPairs :
            args = [fn |-> "calculate_binding_energy", sfxn |-> f,
                    chain_1_id |-> v[1], chain_2_id |-> v[2]]
       \/ \E f \in {"run_and_summarise_pi_score", "calculate_pi_score"},
             t \in ToolOutcomes, n \in ToolLabels :
            args = [fn |-> f, tool |-> t, interface_name |-> n]
    /\ pdb_df = IF args.fn = "get_all_combinations_of_chains" THEN args.pdb_df ELSE <<>>
    /\ chain_combinations = [type |-> "dict", items |-> <<>>]
    /\ pae_mtx = Unbound
    /\ plddt = Unbound
    /\ cutoff = DefaultCutoff
    /\ sfxn = Unbound
    /\ pc = "idle"
    /\ k = 0
    /\ output_df = <<>>
    /\ pi_score_df = Unbound
    /\ calls = {}
    /\ detected = {}
    /\ result = Unbound
    /\ ret = Unbound

Returns(fn, value) ==
    /\ pc = "idle"
    /\ args.fn = fn
    /\ pc' = "done"
    /\ ret' = value
    /\ UNCHANGED <<pdb_df, pae_mtx, plddt, cutoff, sfxn, k, output_df, pi_score_df,
                   calls, detected, result, args>>

unit_get_all_combinations_of_chains ==
    /\ Returns("get_all_combinations_of_chains", NoneValue)
    /\ chain_combinations' = get_all_combinations_of_chains(pdb_df)

unit_obtain_interface_residues ==
    /\ Returns("obtain_interface_residues",
               obtain_interface_residues(args.chain_df_1, args.chain_df_2, args.cutoff))
    /\ UNCHANGED chain_combinations

unit_calculate_average_pae ==
    /\ Returns("calculate_average_pae",
               calculate_average_pae(args.pae_mtx, args.chain_1_residues,
                                     args.chain_2_residues))
    /\ UNCHANGED chain_combinations

unit_calculate_average_plddt ==
    /\ Returns("calculate_average_plddt",
               calculate_average_plddt(args.chain_1_plddt, args.chain_2_plddt,
                                       args.chain_1_residues, args.chain_2_residues))
    /\ UNCHANGED chain_combinations

unit_calculate_binding_energy ==
    /\ Returns("calculate_binding_energy",
               calculate_binding_energy(args.sfxn, args.chain_1_id, args.chain_2_id))
    /\ UNCHANGED chain_combinations

unit_run_and_summarise_pi_score ==
    /\ Returns("run_and_summarise_pi_score",
               run_and_summarise_pi_score(args.tool, args.interface_name))
    /\ UNCHANGED chain_combinations

unit_calculate_pi_score ==
    /\ Returns("calculate_pi_score", calculate_pi_score(args.tool, args.interface_name))
    /\ UNCHANGED chain_combinations

NextUnit ==
    \/ unit_get_all_combinations_of_chains
    \/ unit_obtain_interface_residues
    \/ unit_calculate_average_pae
    \/ unit_calculate_average_plddt
    \/ unit_calculate_binding_energy
    \/ unit_run_and_summarise_pi_score
    \/ unit_calculate_pi_score

SpecUnit == InitUnit /\ [][NextUnit]_vars

(***************************************************************************)
(* Properties of an orchestrated run (Spec).                               *)
(***************************************************************************)
DistinctChains == { pdb_df[i].chain_id : i \in DOMAIN pdb_df }

Items == chain_combinations.items

Invoked(fn, v) == <<fn, v>> \in calls

Sentinels(row) ==
    /\ row.average_interface_pae = Str("No interface residues detected")
    /\ row.average_interface_plddt = Str("No interface residues detected")
    /\ row.binding_energy = Str("None")

\* C2: with fewer than two distinct chain ids the enumerator stores the array
\* of chain ids, not a dict of pairs, and __call__ ends in sys.exit(): no row,
\* no returned table, and no call of the quality tool, the detector, the
\* aggregators or the energy oracle.
C2_MonomericAbort ==
    Cardinality(DistinctChains) < 2 =>
        /\ pc # "new" => chain_combinations.type = "ndarray"
        /\ pc \notin {"new", "ready"} =>
              /\ pc = "exited"
              /\ output_df = <<>>
              /\ result = Unbound
              /\ calls = {}
              /\ detected = {}

C2_Witness ==
    /\ pc = "exited"
    /\ Cardinality(DistinctChains) = 1
    /\ Len(pdb_df) = MaxAtoms

C4_OneRecordPerPair ==
    pc = "returned" =>
        LET n == Cardinality(DistinctChains)
        IN /\ n >= 2
           /\ Len(Items) = (n * (n - 1)) \div 2
           /\ Len(result.rows) = Len(Items)
           /\ \A i \in DOMAIN Items :
                 /\ i \in DOMAIN result.rows
                 /\ result.rows[i].measured.interface = label(Items[i][1], Items[i][2])

(***************************************************************************)
(* Properties of one direct call (SpecUnit).                               *)
(***************************************************************************)
Done(fn) == pc = "done" /\ args.fn = fn

AdapterDone == Done("run_and_summarise_pi_score") \/ Done("calculate_pi_score")

\* C1: when the subprocess leaves no work_dir, no feature table or no score
\* table, the adapter returns one row of "None" metrics labelled with the
\* requested interface, and raises nothing.
C1_SentinelRowOnFailure ==
    (/\ AdapterDone
     /\ \/ ~args.tool.dir_exists
        \/ args.tool.csv = NoneValue
        \/ args.tool.pi = NoneValue) =>
        /\ ret.kind = "DataFrame"
        /\ Len(ret.rows) = 1
        /\ ret.rows[1].interface = args.interface_name
        /\ ret.rows[1].int_area = NoneStr
        /\ ret.rows[1].pi_score = NoneStr

\* C9: every table the adapter returns holds, for each row labelled A_B, a
\* row labelled B_A with the same metric values.
C9_MirroredLabels ==
    (AdapterDone /\ ret.kind = "DataFrame") =>
        \A t \in DOMAIN ret.rows :
            LET parts == split(ret.rows[t].interface)
            IN /\ Len(parts) = 2
               /\ \E u \in DOMAIN ret.rows :
                     /\ ret.rows[u].interface = parts[2] \o <<"_">> \o parts[1]
                     /\ ret.rows[u].int_area = ret.rows[t].int_area
                     /\ ret.rows[u].pi_score = ret.rows[t].pi_score

RECURSIVE SumOver(_, _)
SumOver(f, S) ==
    IF S = {} THEN 0
    ELSE LET x == CHOOSE x \in S : TRUE IN f[x] + SumOver(f, S \ {x})

\* C5: for non-empty index sequences calculate_average_plddt returns the sum
\* of chain_1_plddt over the unique chain-1 indices plus the sum of
\* chain_2_plddt over the unique chain-2 indices, divided by the number of
\* unique indices of both sides.
C5_AverageOverUniqueIndices ==
    (/\ Done("calculate_average_plddt")
     /\ args.chain_1_residues # <<>>
     /\ args.chain_2_residues # <<>>) =>
        LET unique_1 == Range(args.chain_1_residues)
            unique_2 == Range(args.chain_2_residues)
            total == SumOver(args.chain_1_plddt, unique_1)
                         + SumOver(args.chain_2_plddt, unique_2)
            count == Cardinality(unique_1) + Cardinality(unique_2)
        IN /\ ret.kind = "float"
           /\ ret.num * count = total * ret.den

\* C6: calculate_average_pae on an empty residue-pair set signals "no
\* interface" and raises no division error.
C6_EmptyPairsSignalNoInterface ==
    (/\ Done("calculate_average_pae")
     /\ args.chain_1_residues = <<>>
     /\ args.chain_2_residues = <<>>) =>
        /\ ret.kind # "raise"
        /\ ret \in {NoneValue, Str("No interface residues detected")}

ChainIdsOf(df) == { df[i].chain_id : i \in DOMAIN df }

FirstRow(df, c) ==
    CHOOSE i \in DOMAIN df :
        df[i].chain_id = c /\ \A j \in 1..(i - 1) : df[j].chain_id # c

\* C7: for a table with n >= 2 distinct chain ids the enumerator stores a dict
\* with the keys interface_1 .. interface_C(n,2); every unordered pair of
\* distinct chain ids is the value of exactly one key, no value has equal
\* members, and the values follow the order of the chains' first rows.
C7_Enumeration ==
    (Done("get_all_combinations_of_chains") /\ Cardinality(ChainIdsOf(pdb_df)) >= 2) =>
        LET ids == ChainIdsOf(pdb_df)
            n == Cardinality(ids)
            first(c) == FirstRow(pdb_df, c)
        IN /\ chain_combinations.type = "dict"
           /\ DOMAIN Items = 1..((n * (n - 1)) \div 2)
           /\ \A a, b \in ids :
                 a # b => Cardinality({ i \in DOMAIN Items :
                                          {Items[i][1], Items[i][2]} = {a, b} }) = 1
           /\ \A i \in DOMAIN Items :
                 /\ Items[i][1] # Items[i][2]
                 /\ first(Items[i][1]) < first(Items[i][2])
           /\ \A i, j \in DOMAIN Items :
                 i < j =>
                    \/ first(Items[i][1]) < first(Items[j][1])
                    \/ /\ Items[i][1] = Items[j][1]
                       /\ first(Items[i][2]) < first(Items[j][2])

C7_Witness ==
    /\ Done("get_all_combinations_of_chains")
    /\ Cardinality(ChainIdsOf(pdb_df)) = 4
    /\ pdb_df[1].chain_id = "C"
    /\ Len(Items) = 6

IsRepresentative(row) ==
    \/ row.atom_name = "CB"
    \/ row.residue_name = "GLY" /\ row.atom_name = "CA"

\* the 0-based position of row i among the representative rows of df
RepIndex(df, i) == Cardinality({ j \in 1..(i - 1) : IsRepresentative(df[j]) })

RepRowPairs ==
    { ij \in (DOMAIN args.chain_df_1) \X (DOMAIN args.chain_df_2) :
        /\ IsRepresentative(args.chain_df_1[ij[1]])
        /\ IsRepresentative(args.chain_df_2[ij[2]]) }

SquaredDistance(ij) == sum_sq(args.chain_df_1[ij[1]].coord, args.chain_df_2[ij[2]].coord)

\* C8: obtain_interface_residues returns exactly the index pairs of
\* representative atoms (CB, or CA of a glycine) at a distance strictly below
\* the cutoff, a pair at the cutoff excluded, and None when there is no such
\* pair (no representative atom in a chain, or none close enough).
C8_InterfaceDetection ==
    Done("obtain_interface_residues") =>
        LET close == { ij \in RepRowPairs :
                         args.cutoff > 0 /\ SquaredDistance(ij) < args.cutoff * args.cutoff }
            expected == { <<RepIndex(args.chain_df_1, ij[1]), RepIndex(args.chain_df_2, ij[2])>> :
                            ij \in close }
        IN IF expected = {}
           THEN ret = NoneValue
           ELSE /\ ret.kind = "tuple"
                /\ Len(ret.chain_1) = Len(ret.chain_2)
                /\ Len(ret.chain_1) = Cardinality(expected)
                /\ { <<ret.chain_1[t], ret.chain_2[t]>> : t \in DOMAIN ret.chain_1 } = expected

C8_Witness ==
    /\ Done("obtain_interface_residues")
    /\ ret.kind = "tuple"
    /\ \E ij \in RepRowPairs : SquaredDistance(ij) = args.cutoff * args.cutoff
    /\ \E i \in DOMAIN args.chain_df_1 : ~IsRepresentative(args.chain_df_1[i])

\* C10: the complex handed to the energy oracle holds the atoms of both
\* chains, the other two poses one chain each, and the value returned is the
\* oracle's energy of the complex less those of the two chains.
C10_BindingEnergyInputs ==
    Done("calculate_binding_energy") =>
        LET a == args.chain_1_id
            b == args.chain_2_id
        IN /\ ret.complex_pose = {a, b}
           /\ ret.chain_1_pose = {a}
           /\ ret.chain_2_pose = {b}
           /\ ret.value = args.sfxn[{a, b}] - args.sfxn[{a}] - args.sfxn[{b}]

====
